---- MODULE Spec2Model ----
(***************************************************************************)
(* Model of js/util/version_util.ts: the version parser (parse), the       *)
(* comparator (compare, in its two- and three-argument forms) and the      *)
(* legacy alias window.compareVersions.                                    *)
(*                                                                         *)
(* A JavaScript string is a sequence of one-character strings.  A number   *)
(* is an integer, or NaN (what parseInt returns for an empty group).       *)
(***************************************************************************)
EXTENDS Integers, Sequences, FiniteSets, TLC

VARIABLES a, b, c, op, pc, ret, rab, rbc, rac

vars == <<a, b, c, op, pc, ret, rab, rbc, rac>>

(***************************************************************************)
(* Character classes of the regular expressions.                           *)
(***************************************************************************)
\* \d
Digits == {"0", "1", "2", "3", "4", "5", "6", "7", "8", "9"}

\* [a-zA-Z]
Letters ==
    {"a", "b", "c", "d", "e", "f", "g", "h", "i", "j", "k", "l", "m",
     "n", "o", "p", "q", "r", "s", "t", "u", "v", "w", "x", "y", "z",
     "A", "B", "C", "D", "E", "F", "G", "H", "I", "J", "K", "L", "M",
     "N", "O", "P", "Q", "R", "S", "T", "U", "V", "W", "X", "Y", "Z"}

\* \w
WordChars == Digits \cup Letters \cup {"_"}

\* [\d.]
VersionChars == Digits \cup {"."}

\* The literal beta\. of VERSION_REGEX
BetaLiteral == <<"b", "e", "t", "a", ".">>

\* parseInt's result on a string with no leading digit
NaN == -1

DigitValue(ch) ==
    CASE ch = "0" -> 0 [] ch = "1" -> 1 [] ch = "2" -> 2 [] ch = "3" -> 3
      [] ch = "4" -> 4 [] ch = "5" -> 5 [] ch = "6" -> 6 [] ch = "7" -> 7
      [] ch = "8" -> 8 [] ch = "9" -> 9

DigitChar(n) ==
    CASE n = 0 -> "0" [] n = 1 -> "1" [] n = 2 -> "2" [] n = 3 -> "3"
      [] n = 4 -> "4" [] n = 5 -> "5" [] n = 6 -> "6" [] n = 7 -> "7"
      [] n = 8 -> "8" [] n = 9 -> "9"

(***************************************************************************)
(* String helpers: what the regular expressions and the String and Array   *)
(* methods used by the source compute.                                     *)
(***************************************************************************)
AllIn(s, class) == \A i \in 1..Len(s) : s[i] \in class

StartsWith(s, p) == Len(s) >= Len(p) /\ SubSeq(s, 1, Len(p)) = p

Drop(s, n) == SubSeq(s, n + 1, Len(s))

\* Length of the match of ^[\d.]+ (greedy), 0 when there is none
LeadingLength(s) ==
    LET ns == {n \in 0..Len(s) : \A i \in 1..n : s[i] \in VersionChars}
    IN  CHOOSE n \in ns : \A m \in ns : m <= n

\* MatchesBetaGroup without the alternative [a-zA-Z]+[\w]*
MatchesBetaGroupDigitsOnly(s) == Len(s) >= 1 /\ AllIn(s, VersionChars)

\* Whether the whole of s matches [\d\.]+|[a-zA-Z]+[\w]*
MatchesBetaGroup(s) ==
    /\ Len(s) >= 1
    /\ \/ AllIn(s, VersionChars)
       \/ s[1] \in Letters /\ AllIn(s, WordChars)

\* String.prototype.split('.')
RECURSIVE SplitFrom(_, _, _)
SplitFrom(s, i, cur) ==
    IF i > Len(s) THEN <<cur>>
    ELSE IF s[i] = "." THEN <<cur>> \o SplitFrom(s, i + 1, <<>>)
    ELSE SplitFrom(s, i + 1, Append(cur, s[i]))

Split(s) == SplitFrom(s, 1, <<>>)

\* /^\d+$/.test(v)
IsDigitGroup(v) == Len(v) >= 1 /\ AllIn(v, Digits)

\* parseInt(v): the value of the leading decimal digits, NaN when there are none
RECURSIVE DigitsValue(_, _, _)
DigitsValue(v, i, acc) ==
    IF i > Len(v) \/ v[i] \notin Digits THEN acc
    ELSE DigitsValue(v, i + 1, acc * 10 + DigitValue(v[i]))

ParseInt(v) ==
    IF Len(v) = 0 \/ v[1] \notin Digits THEN NaN ELSE DigitsValue(v, 1, 0)

MapParseInt(groups) == [i \in 1..Len(groups) |-> ParseInt(groups[i])]

\* Number.prototype.toString of a non-negative integer
RECURSIVE NumberToString(_)
NumberToString(n) ==
    IF n < 10 THEN <<DigitChar(n)>>
    ELSE Append(NumberToString(n \div 10), DigitChar(n % 10))

\* Join with the separator left out
RECURSIVE JoinNoSeparator(_)
JoinNoSeparator(nums) ==
    IF Len(nums) = 0 THEN <<>>
    ELSE NumberToString(nums[1]) \o JoinNoSeparator(Tail(nums))

\* Array.prototype.join('.') of an array of numbers
RECURSIVE Join(_)
Join(nums) ==
    IF Len(nums) = 0 THEN <<>>
    ELSE IF Len(nums) = 1 THEN NumberToString(nums[1])
    ELSE NumberToString(nums[1]) \o <<".">> \o Join(Tail(nums))

\* String.prototype.indexOf: the 0-based place of the first occurrence, -1 when none
IndexOf(s, pat) ==
    LET at == {i \in 0..(Len(s) - Len(pat)) : SubSeq(s, i + 1, i + Len(pat)) = pat}
    IN  IF at = {} THEN 0 - 1 ELSE CHOOSE i \in at : \A j \in at : i <= j

\* String.prototype.replace(pat, '') with a string pattern: the first occurrence goes
RemoveFirst(s, pat) ==
    LET i == IndexOf(s, pat)
    IN  IF i < 0 THEN s ELSE SubSeq(s, 1, i) \o Drop(s, i + Len(pat))

(***************************************************************************)
(* VERSION_REGEX: ^(?<version>[\d.]+)(?:-(?:beta\.)?(?<beta>...))?$        *)
(* The version group is the whole leading run of [\d.]: what follows it    *)
(* must be the end or a dash, and neither is in [\d.].  After the dash the *)
(* optional beta\. is tried first, then skipped (backtracking).            *)
(***************************************************************************)
NoMatch == [matched |-> FALSE, version |-> <<>>, betaDefined |-> FALSE, beta |-> <<>>]

MatchVersionRegex(s) ==
    LET n    == LeadingLength(s)
        rest == Drop(s, n + 1)
    IN  IF n = 0 THEN NoMatch
        ELSE IF n = Len(s)
        THEN [matched |-> TRUE, version |-> s, betaDefined |-> FALSE, beta |-> <<>>]
        ELSE IF s[n + 1] # "-" THEN NoMatch
        ELSE IF StartsWith(rest, BetaLiteral)
                /\ MatchesBetaGroup(Drop(rest, Len(BetaLiteral)))
        THEN [matched |-> TRUE, version |-> SubSeq(s, 1, n),
              betaDefined |-> TRUE, beta |-> Drop(rest, Len(BetaLiteral))]
        ELSE IF MatchesBetaGroup(rest)
        THEN [matched |-> TRUE, version |-> SubSeq(s, 1, n),
              betaDefined |-> TRUE, beta |-> rest]
        ELSE NoMatch

(***************************************************************************)
(* parse.  A ParsedVersion has the fields string, version, beta and        *)
(* custom; betaDefined and customDefined say whether the optional fields   *)
(* hold a value.  threw is "none" or the error that parse throws.          *)
(***************************************************************************)
ParsedVersion(str, version, betaDefined, beta, customDefined, custom) ==
    [threw |-> "none", string |-> str, version |-> version,
     betaDefined |-> betaDefined, beta |-> beta,
     customDefined |-> customDefined, custom |-> custom]

InvalidVersionFormat(str) ==
    [threw |-> "InvalidVersionFormat", string |-> str, version |-> <<>>,
     betaDefined |-> FALSE, beta |-> <<>>,
     customDefined |-> FALSE, custom |-> <<>>]

parse(versionString) ==
    LET match == MatchVersionRegex(versionString)
    IN  IF ~match.matched
        THEN LET n           == LeadingLength(versionString)
                 numbersOnly == SubSeq(versionString, 1, n)
             IN  IF n > 0
                 THEN ParsedVersion(versionString,
                                    MapParseInt(Split(numbersOnly)),
                                    FALSE, <<>>,
                                    TRUE, RemoveFirst(versionString, numbersOnly))
                 ELSE InvalidVersionFormat(versionString)
        ELSE LET betaPart      == Split(match.beta)
                 isBetaNumeric ==
                     /\ match.betaDefined
                     /\ \A i \in 1..Len(betaPart) : IsDigitGroup(betaPart[i])
             IN  ParsedVersion(versionString,
                               MapParseInt(Split(match.version)),
                               isBetaNumeric,
                               IF isBetaNumeric THEN MapParseInt(betaPart) ELSE <<>>,
                               ~isBetaNumeric /\ match.betaDefined,
                               IF ~isBetaNumeric /\ match.betaDefined
                               THEN match.beta ELSE <<>>)

(***************************************************************************)
(* compare.  The outcome of a call is a record: kind is "number" (num is   *)
(* the result), "boolean" (bool is the result) or the error thrown.        *)
(***************************************************************************)
Number(n) == [kind |-> "number", num |-> n, bool |-> FALSE, offender |-> <<>>]

Boolean(v) == [kind |-> "boolean", num |-> 0, bool |-> v, offender |-> <<>>]

Throw(kind, offender) == [kind |-> kind, num |-> 0, bool |-> FALSE, offender |-> offender]

\* GreaterThan with >= for >
GreaterThanOrEqual(x, y) == x # NaN /\ y # NaN /\ x >= y

\* The operators > and < of numbers: false whenever a side is NaN
GreaterThan(x, y) == x # NaN /\ y # NaN /\ x > y

LessThan(x, y) == x # NaN /\ y # NaN /\ x < y

\* array.at(i) ?? 0, for an index i >= 0
AtOrZero(array, i) == IF i < Len(array) THEN array[i + 1] ELSE 0

Max(x, y) == IF x >= y THEN x ELSE y

\* The for loop over the main version
RECURSIVE VersionLoop(_, _, _, _)
VersionLoop(versionA, versionB, i, maxLength) ==
    IF ~(i < maxLength) THEN 0
    ELSE IF GreaterThan(AtOrZero(versionA, i), AtOrZero(versionB, i)) THEN 1
    ELSE IF LessThan(AtOrZero(versionA, i), AtOrZero(versionB, i)) THEN 0 - 1
    ELSE VersionLoop(versionA, versionB, i + 1, maxLength)

\* ApplyOperator with < for <= in the case '<='
ApplyOperatorStrict(operator, result) ==
    CASE operator = "==" -> Boolean(result = 0)
      [] operator = "<=" -> Boolean(result < 0)
      [] operator = ">=" -> Boolean(result >= 0)
      [] operator = "<"  -> Boolean(result = 0 - 1)
      [] operator = ">"  -> Boolean(result = 1)
      [] operator = "undefined" -> Number(result)
      [] OTHER -> Throw("InvalidOperator", <<operator>>)

\* The switch on the operator
ApplyOperator(operator, result) ==
    CASE operator = "==" -> Boolean(result = 0)
      [] operator = "<=" -> Boolean(result <= 0)
      [] operator = ">=" -> Boolean(result >= 0)
      [] operator = "<"  -> Boolean(result = 0 - 1)
      [] operator = ">"  -> Boolean(result = 1)
      [] operator = "undefined" -> Number(result)
      [] OTHER -> Throw("InvalidOperator", <<operator>>)

\* BetaTieBreak with the two one-sided results exchanged (a beta ranks lower)
BetaTieBreakAbsenceWins(parsedA, parsedB, inner) ==
    IF parsedA.betaDefined /\ ~parsedB.betaDefined THEN 0 - 1
    ELSE IF ~parsedA.betaDefined /\ parsedB.betaDefined THEN 1
    ELSE IF parsedA.betaDefined /\ parsedB.betaDefined THEN inner
    ELSE 0

\* The tie-break on the beta parts, taken when the main versions are equal;
\* inner is the result of the recursive call on the joined beta parts
BetaTieBreak(parsedA, parsedB, inner) ==
    IF parsedA.betaDefined /\ ~parsedB.betaDefined THEN 1
    ELSE IF ~parsedA.betaDefined /\ parsedB.betaDefined THEN 0 - 1
    ELSE IF parsedA.betaDefined /\ parsedB.betaDefined THEN inner
    ELSE 0

\* The body of compare once the arguments are sorted out.  The recursive call
\* is the two-argument one; an error it throws goes up to the caller.
RECURSIVE CompareBody(_, _, _)
CompareBody(versionA, operator, versionB) ==
    IF versionA = versionB THEN ApplyOperator(operator, 0)
    ELSE LET parsedA == parse(versionA)
             parsedB == parse(versionB)
         IN  IF parsedA.threw # "none" THEN Throw(parsedA.threw, versionA)
             ELSE IF parsedB.threw # "none" THEN Throw(parsedB.threw, versionB)
             ELSE LET maxLength == Max(Len(parsedA.version), Len(parsedB.version))
                      main  == VersionLoop(parsedA.version, parsedB.version, 0, maxLength)
                      inner == CompareBody(Join(parsedA.beta), "undefined",
                                           Join(parsedB.beta))
                  IN  IF main # 0 THEN ApplyOperator(operator, main)
                      ELSE IF parsedA.betaDefined /\ parsedB.betaDefined
                              /\ inner.kind # "number"
                      THEN inner
                      ELSE ApplyOperator(operator,
                                         BetaTieBreak(parsedA, parsedB, inner.num))

\* compare2 with both strings parsed before they are tested for identity
compare2ParseFirst(versionA, versionB) ==
    IF parse(versionA).threw # "none" THEN Throw(parse(versionA).threw, versionA)
    ELSE IF parse(versionB).threw # "none" THEN Throw(parse(versionB).threw, versionB)
    ELSE CompareBody(versionA, "undefined", versionB)

\* compare(versionA, versionB): the second argument arrives as operator
compare2(versionA, versionB) == CompareBody(versionA, "undefined", versionB)

\* compare(versionA, operator, versionB)
compare3(versionA, operator, versionB) == CompareBody(versionA, operator, versionB)

\* window.compareVersions
compareVersions(versionA, versionB) == compare3(versionA, ">", versionB)

(***************************************************************************)
(* Inputs.  Words over a small alphabet (every shape of malformed input),  *)
(* and versions of the shapes N, N-P and N-beta.P put together from        *)
(* groups.  A group is its text with, for a digit group, its value.        *)
(***************************************************************************)
MaxLen == 2
MaxParseLen == 4
MaxTransLen == 1

Alphabet == {"0", "1", ".", "-", "a", "_"}

Words(n) == UNION {[1..k -> Alphabet] : k \in 0..n}

Group(text, digits, value) == [text |-> text, digits |-> digits, value |-> value]

Zero == Group(<<"0">>, TRUE, 0)
One == Group(<<"1">>, TRUE, 1)
ZeroOne == Group(<<"0", "1">>, TRUE, 1)
Ten == Group(<<"1", "0">>, TRUE, 10)
LetterA == Group(<<"a">>, FALSE, 0)
LetterDigit == Group(<<"a", "1">>, FALSE, 0)
DigitLetter == Group(<<"1", "a">>, FALSE, 0)
Underscore == Group(<<"_">>, FALSE, 0)

DigitGroups == {Zero, One, ZeroOne, Ten}

WordGroups == {One, ZeroOne, LetterA, LetterDigit, DigitLetter, Underscore}

OneOrTwo(groups) == {<<g>> : g \in groups} \cup {<<g, h>> : g \in groups, h \in groups}

\* The text of a sequence of groups, dot-separated
RECURSIVE Dotted(_)
Dotted(gs) ==
    IF Len(gs) = 1 THEN gs[1].text
    ELSE gs[1].text \o <<".">> \o Dotted(Tail(gs))

Values(gs) == [i \in 1..Len(gs) |-> gs[i].value]

AllDigits(gs) == \A i \in 1..Len(gs) : gs[i].digits

Forms == {"N", "N-P", "N-beta.P"}

Render(n, form, p) ==
    CASE form = "N" -> Dotted(n)
      [] form = "N-P" -> Dotted(n) \o <<"-">> \o Dotted(p)
      [] form = "N-beta.P" -> Dotted(n) \o <<"-">> \o BetaLiteral \o Dotted(p)

Shaped(runs, pres) ==
    {[input |-> Render(n, f, p), n |-> n, form |-> f, p |-> p] :
        n \in runs, f \in Forms, p \in pres}

\* N of one or two digit groups, P of one or two groups of word characters
WordShapes == Shaped(OneOrTwo(DigitGroups), OneOrTwo(WordGroups))

\* P of one or two digit groups, or one group of word characters that starts
\* with a letter
BetaShapes ==
    Shaped(OneOrTwo(DigitGroups),
           OneOrTwo({One, ZeroOne}) \cup {<<LetterA>>, <<LetterDigit>>})

CompareShapes ==
    Shaped(OneOrTwo(DigitGroups),
           {<<Zero>>, <<One>>, <<ZeroOne>>, <<Ten>>, <<One, Zero>>, <<One, One>>,
            <<LetterA>>})

CompareInputs == Words(MaxLen) \cup {e.input : e \in CompareShapes}

ParseInputs == Words(MaxParseLen) \cup {e.input : e \in WordShapes \cup BetaShapes}

TransInputs ==
    Words(MaxTransLen)
    \cup {<<"1", ".">>, <<"1", ".", "0">>, <<"1", ".", "1">>, <<"0", "1">>,
          <<"1", "-", "1">>, <<"1", "-", "0", "1">>, <<"1", "-", "1", ".", "0">>,
          <<"1", "-", "1", "0">>, <<"1", "-", "a">>, <<"1", "a">>,
          <<"1", "-">> \o BetaLiteral \o <<"1">>, <<"1", ".", "0", "-", "1">>}

OperatorInputs == {"==", "<=", ">=", "<", ">", "bogus", "="}

(***************************************************************************)
(* The state: the arguments of the call under way, and what it returned.   *)
(***************************************************************************)
NoResult == [kind |-> "pending", num |-> 0, bool |-> FALSE, offender |-> <<>>]

\* Two strings, then one call of the two-argument compare
Init ==
    /\ a \in CompareInputs
    /\ b \in CompareInputs
    /\ c = <<>>
    /\ op = "undefined"
    /\ pc = "start"
    /\ ret = NoResult
    /\ rab = NoResult /\ rbc = NoResult /\ rac = NoResult

CallCompare ==
    /\ pc = "start"
    /\ ret' = compare2(a, b)
    /\ pc' = "compare"
    /\ UNCHANGED <<a, b, c, op, rab, rbc, rac>>

CallCompareOperator ==
    /\ pc = "start"
    /\ \E o \in OperatorInputs :
          /\ op' = o
          /\ ret' = compare3(a, o, b)
    /\ pc' = "compareOperator"
    /\ UNCHANGED <<a, b, c, rab, rbc, rac>>

CallCompareVersions ==
    /\ pc = "start"
    /\ op' = ">"
    /\ ret' = compareVersions(a, b)
    /\ pc' = "compareVersions"
    /\ UNCHANGED <<a, b, c, rab, rbc, rac>>

Next == CallCompare

Spec == Init /\ [][Next]_vars

\* Two strings, then one call of compare in any of its forms
InitOperator ==
    /\ a \in TransInputs
    /\ b \in TransInputs
    /\ c = <<>>
    /\ op = "undefined"
    /\ pc = "start"
    /\ ret = NoResult
    /\ rab = NoResult /\ rbc = NoResult /\ rac = NoResult

NextOperator == CallCompare \/ CallCompareOperator \/ CallCompareVersions

SpecOperator == InitOperator /\ [][NextOperator]_vars

\* One string, then one call of parse
InitParse ==
    /\ a \in ParseInputs
    /\ b = <<>> /\ c = <<>>
    /\ op = "undefined"
    /\ pc = "start"
    /\ ret = NoResult
    /\ rab = NoResult /\ rbc = NoResult /\ rac = NoResult

CallParse ==
    /\ pc = "start"
    /\ ret' = parse(a)
    /\ pc' = "parse"
    /\ UNCHANGED <<a, b, c, op, rab, rbc, rac>>

NextParse == CallParse

SpecParse == InitParse /\ [][NextParse]_vars

\* Three strings, then compare on each of the three pairs
InitTrans ==
    /\ a \in TransInputs
    /\ b \in TransInputs
    /\ c \in TransInputs
    /\ op = "undefined"
    /\ pc = "start"
    /\ ret = NoResult
    /\ rab = NoResult /\ rbc = NoResult /\ rac = NoResult

CompareAB ==
    /\ pc = "start"
    /\ rab' = compare2(a, b)
    /\ pc' = "ab"
    /\ UNCHANGED <<a, b, c, op, ret, rbc, rac>>

CompareBC ==
    /\ pc = "ab"
    /\ rbc' = compare2(b, c)
    /\ pc' = "bc"
    /\ UNCHANGED <<a, b, c, op, ret, rab, rac>>

CompareAC ==
    /\ pc = "bc"
    /\ rac' = compare2(a, c)
    /\ pc' = "done"
    /\ UNCHANGED <<a, b, c, op, ret, rab, rbc>>

NextTrans == CompareAB \/ CompareBC \/ CompareAC

SpecTrans == InitTrans /\ [][NextTrans]_vars

(***************************************************************************)
(* Vocabulary of the properties, defined without the comparator.           *)
(***************************************************************************)
Parseable(s) == parse(s).threw = "none"

\* The i-th component (from 1) of a sequence padded with 0
Padded(seq, i) == IF i <= Len(seq) THEN seq[i] ELSE 0

Positions(x, y) == 1..(IF Len(x) >= Len(y) THEN Len(x) ELSE Len(y))

Differing(x, y) == {i \in Positions(x, y) : Padded(x, i) # Padded(y, i)}

NumericTie(x, y) == Differing(x, y) = {}

FirstDiffering(x, y) == CHOOSE i \in Differing(x, y) : \A j \in Differing(x, y) : i <= j

IsInteger(x) == x \in Nat

\* The order of two sequences of integers by their first differing component
PaddedOrder(x, y) ==
    IF NumericTie(x, y) THEN 0
    ELSE IF Padded(x, FirstDiffering(x, y)) < Padded(y, FirstDiffering(x, y))
    THEN 0 - 1 ELSE 1

\* An opaque pre-release: a suffix the grammar matched that is not numeric
Opaque(parsed) == parsed.customDefined /\ MatchVersionRegex(parsed.string).matched

HasPreRelease(parsed) == parsed.betaDefined \/ Opaque(parsed)

PreReleaseString(parsed) ==
    IF parsed.betaDefined THEN Join(parsed.beta) ELSE parsed.custom

Compared == pc = "compare" /\ Parseable(a) /\ Parseable(b)

\* C1: for all parseable a and b, compare(a, b) is the negation of compare(b, a).
Antisymmetry ==
    Compared =>
        /\ ret.kind = "number"
        /\ compare2(b, a).kind = "number"
        /\ ret.num = 0 - compare2(b, a).num

AntisymmetryWitness ==
    /\ Compared
    /\ parse(a).betaDefined /\ parse(b).betaDefined
    /\ ret = Number(1)
    /\ compare2(b, a) = Number(0 - 1)

\* C2 as stated: when the numeric parts tie and a carries a pre-release, numeric
\* or opaque, while b carries none, compare(a, b) is 1 and compare(b, a) is -1.
PresenceBeatsAbsenceAnyPreRelease ==
    ( /\ Compared
      /\ NumericTie(parse(a).version, parse(b).version)
      /\ HasPreRelease(parse(a))
      /\ ~parse(b).betaDefined /\ ~parse(b).customDefined )
    => ret = Number(1) /\ compare2(b, a) = Number(0 - 1)

\* C2 amended: when the numeric parts tie and a carries a numeric pre-release
\* while b carries none, compare(a, b) is 1 and compare(b, a) is -1.
PresenceBeatsAbsence ==
    ( /\ Compared
      /\ NumericTie(parse(a).version, parse(b).version)
      /\ parse(a).betaDefined
      /\ ~parse(b).betaDefined /\ ~parse(b).customDefined )
    => ret = Number(1) /\ compare2(b, a) = Number(0 - 1)

PresenceBeatsAbsenceWitness ==
    /\ Compared
    /\ NumericTie(parse(a).version, parse(b).version)
    /\ Len(parse(a).version) # Len(parse(b).version)
    /\ parse(a).betaDefined
    /\ ~parse(b).betaDefined /\ ~parse(b).customDefined
    /\ ret = Number(1)

\* C3: at the first position where the numeric parts, padded with 0, differ, the
\* result is -1 when a's component is the smaller and 1 when it is the larger,
\* whatever the pre-release parts; they count only when every position ties.
NumericOrdering ==
    (Compared /\ ~NumericTie(parse(a).version, parse(b).version)) =>
        LET d == FirstDiffering(parse(a).version, parse(b).version)
            x == Padded(parse(a).version, d)
            y == Padded(parse(b).version, d)
        IN  \/ IsInteger(x) /\ IsInteger(y) /\ x < y /\ ret = Number(0 - 1)
            \/ IsInteger(x) /\ IsInteger(y) /\ x > y /\ ret = Number(1)

\* C4 as stated: when the numeric parts tie and both carry a pre-release, numeric
\* or opaque, compare(a, b) is the comparator's result on the two pre-release
\* strings.
PreReleaseRecursionAnyPreRelease ==
    ( /\ Compared
      /\ NumericTie(parse(a).version, parse(b).version)
      /\ HasPreRelease(parse(a)) /\ HasPreRelease(parse(b)) )
    => ret = compare2(PreReleaseString(parse(a)), PreReleaseString(parse(b)))

\* C4 amended: when the numeric parts tie and both carry a numeric pre-release,
\* compare(a, b) is the comparator's result on the two joined pre-release
\* strings, which orders the pre-release integers position by position, padded
\* with 0.
PreReleaseRecursion ==
    ( /\ Compared
      /\ NumericTie(parse(a).version, parse(b).version)
      /\ parse(a).betaDefined /\ parse(b).betaDefined )
    => /\ ret = compare2(Join(parse(a).beta), Join(parse(b).beta))
       /\ ret = Number(PaddedOrder(parse(a).beta, parse(b).beta))

PreReleaseRecursionWitness ==
    /\ Compared
    /\ NumericTie(parse(a).version, parse(b).version)
    /\ parse(a).betaDefined /\ parse(b).betaDefined
    /\ Len(parse(a).beta) # Len(parse(b).beta)
    /\ ret = Number(0 - 1)

\* C5: over parseable strings, compare(a, b) <= 0 and compare(b, c) <= 0 imply
\* compare(a, c) <= 0.
Transitivity ==
    (pc = "done" /\ Parseable(a) /\ Parseable(b) /\ Parseable(c)) =>
        (rab.num <= 0 /\ rbc.num <= 0 => rac.num <= 0)

\* C6: parse fails exactly when the input does not start with a run of
\* dot-separated digit groups, that is, does not start with a digit.
ParseFailsIffNoDigitRun ==
    pc = "parse" =>
        (ret.threw = "InvalidVersionFormat" <=> ~(Len(a) >= 1 /\ a[1] \in Digits))

\* C7: the two-argument compare fails exactly when a and b are not identical and
\* parse fails on one of them; on identical strings it returns 0; whenever it
\* does not fail its result is -1, 0 or 1.
FailureSurface ==
    pc = "compare" =>
        /\ ret.kind = "InvalidVersionFormat" <=>
              (a # b /\ (~Parseable(a) \/ ~Parseable(b)))
        /\ a = b => ret = Number(0)
        /\ ret.kind # "InvalidVersionFormat" =>
              ret.kind = "number" /\ ret.num \in {0 - 1, 0, 1}

FailureSurfaceWitness ==
    /\ pc = "compare"
    /\ a = b
    /\ ~Parseable(a)
    /\ ret = Number(0)

\* C8: where compare(a, b) returns r, compare(a, op, b) returns the boolean that
\* op makes of r for the five operators and fails with InvalidOperator for any
\* other; compareVersions(a, b) is true exactly when r is 1.
OperatorForm ==
    LET r == compare2(a, b).num
    IN  /\ (pc = "compareOperator" /\ compare2(a, b).kind = "number") =>
              /\ op = "==" => ret = Boolean(r = 0)
              /\ op = "<"  => ret = Boolean(r = 0 - 1)
              /\ op = ">"  => ret = Boolean(r = 1)
              /\ op = "<=" => ret = Boolean(r <= 0)
              /\ op = ">=" => ret = Boolean(r >= 0)
              /\ op \notin {"==", "<", ">", "<=", ">="} => ret.kind = "InvalidOperator"
        /\ (pc = "compareVersions" /\ compare2(a, b).kind = "number") =>
              ret = Boolean(r = 1)

OperatorFormWitness ==
    /\ pc = "compareOperator"
    /\ op = "<="
    /\ compare2(a, b) = Number(0)
    /\ a # b
    /\ ret = Boolean(TRUE)

\* What C9 says parse returns on an input of shape e
Classified(e, parsed) ==
    /\ parsed.threw = "none"
    /\ parsed.version = Values(e.n)
    /\ ~(parsed.betaDefined /\ parsed.customDefined)
    /\ e.form = "N" => ~parsed.betaDefined /\ ~parsed.customDefined
    /\ (e.form # "N" /\ AllDigits(e.p)) =>
          parsed.betaDefined /\ parsed.beta = Values(e.p)
    /\ (e.form # "N" /\ ~AllDigits(e.p)) =>
          parsed.customDefined /\ parsed.custom = Dotted(e.p)

\* C9 as stated: on N, N-P and N-beta.P, with P one or more dot-separated groups
\* of word characters, parse returns the integers of N and a pre-release that is
\* absent, numeric (the integers of P) or opaque (P itself), never two of them.
PrimaryClassificationWordGroups ==
    pc = "parse" => \A e \in WordShapes : e.input = a => Classified(e, ret)

\* C9 amended: the same, with P either one or more dot-separated digit groups or
\* a single group of word characters that starts with a letter.
PrimaryClassification ==
    pc = "parse" => \A e \in BetaShapes : e.input = a => Classified(e, ret)

PrimaryClassificationWitness ==
    /\ pc = "parse"
    /\ \E e \in BetaShapes :
          /\ e.input = a
          /\ e.form = "N-beta.P"
          /\ ~AllDigits(e.p)
          /\ ret.customDefined
          /\ ret.custom = Dotted(e.p)

\* C10: every ParsedVersion that parse returns has a non-empty version whose
\* elements are all non-negative integers.
NumericPartsAreIntegers ==
    (pc = "parse" /\ ret.threw = "none") =>
        /\ Len(ret.version) >= 1
        /\ \A i \in 1..Len(ret.version) : IsInteger(ret.version[i])

====
